---- MODULE Spec2Model ----
(***************************************************************************)
(* A model of the news agent: the RSS feed cache of MistralAgent           *)
(* (src/agent.py) and the standalone discovery / scraping / summarizing    *)
(* pipeline (src/final.py).                                                *)
(*                                                                         *)
(* Strings of the program are modelled by what the code reads of them:     *)
(* a feed entry by its source and position, a text by the sequence of its  *)
(* pieces and their lengths, a link by its prefix, host and path.          *)
(***************************************************************************)
EXTENDS Integers, Sequences, FiniteSets, TLC

VARIABLES
    \* ---- MistralAgent (src/agent.py) ----
    news_cache,     \* self.news_cache: category -> list of entries
    last_fetch,     \* self.last_fetch: category -> time of the last fetch
    now,            \* the wall clock read by datetime.now(), in minutes
    apc,            \* position of the caller of fetch_news
    arg,            \* arguments of the fetch_news call in progress
    ret,            \* value returned by the last fetch_news call
    parsed,         \* feed URLs handed to feedparser.parse by the last call
    stored,         \* per category, the list built by the last feed fetch
    \* ---- one call of scrape_article (src/final.py) ----
    spc,            \* "input" before the call, "done" after it
    surl,           \* the url argument
    spage,          \* what the site answers for it
    sret,           \* the string returned
    \* ---- one call of summarize_news (src/final.py) ----
    zpc,            \* "input" before the call, "done" after it
    zarticles,      \* the articles argument
    zr1,            \* what the LLM answers to the first prompt
    zr2,            \* what the LLM answers to the alternate prompt
    zout,           \* the summary returned and the number of LLM calls made
    \* ---- one run of main (src/final.py) ----
    pc,             \* the network step main is about to make
    sources,        \* main's local `sources`, the suggested news sources
    article_links,  \* get_news_urls: links of the two HTML searches
    backup_urls,    \* get_news_urls: links of the RSS search
    urls,           \* the list get_news_urls returned
    tried,          \* the discovery requests made so far, in order
    failed,         \* the discovery requests that raised or answered non-200
    offered,        \* the matching URLs on the pages the searches have read
    fetched,        \* the page each url scraped so far was answered with
    articles,       \* main's list of scraped texts
    llmCalls,       \* LLM calls made by summarize_news in this run
    out,            \* what main printed
    \* ---- the bot's message handlers (src/bot.py, src/agent.py) ----
    hpc,            \* per handler, the await it is suspended at
    hmsg,           \* per handler, the message it handles
    hres,           \* per handler, how its last message ended
    \* ---- one call of News.get_topic (src/v1/news.py) ----
    tpc,            \* "input" before the call, "done" after it
    targ,           \* the topic and the limit of the call
    tnews,          \* what google_news.get_news answers
    tret            \* what the call returned, or that it raised

agentVars == <<news_cache, last_fetch, now, apc, arg, ret, parsed, stored>>

scrapeVars == <<spc, surl, spage, sret>>

sumVars == <<zpc, zarticles, zr1, zr2, zout>>

mainVars == <<pc, sources, article_links, backup_urls, urls, tried, failed,
              offered, fetched, articles, llmCalls, out>>

botVars == <<hpc, hmsg, hres>>

topicVars == <<tpc, targ, tnews, tret>>

vars == <<agentVars, scrapeVars, sumVars, mainVars, botVars, topicVars>>

\* the coroutines of on_message that can be in progress at once
Handlers == {"h1", "h2"}

\* the variables of a part the specification at hand does not run
ScrapeIdle ==
    /\ spc = "idle"
    /\ surl = "none"
    /\ spage = "none"
    /\ sret = <<>>

SumIdle ==
    /\ zpc = "idle"
    /\ zarticles = <<>>
    /\ zr1 = "none"
    /\ zr2 = "none"
    /\ zout = "none"

BotIdle ==
    /\ hpc = [h \in Handlers |-> "off"]
    /\ hmsg = [h \in Handlers |-> "none"]
    /\ hres = [h \in Handlers |-> "none"]

TopicIdle ==
    /\ tpc = "idle"
    /\ targ = "none"
    /\ tnews = "none"
    /\ tret = "none"

MainIdle ==
    /\ pc = "idle"
    /\ sources = <<>>
    /\ article_links = <<>>
    /\ backup_urls = <<>>
    /\ urls = <<>>
    /\ tried = <<>>
    /\ failed = {}
    /\ offered = {}
    /\ fetched = <<>>
    /\ articles = <<>>
    /\ llmCalls = 0
    /\ out = "none"

\* ------------------------------------------------------------------------
\* Generic helpers
\* ------------------------------------------------------------------------

Min(a, b) == IF a < b THEN a ELSE b

Max(a, b) == IF a > b THEN a ELSE b

\* Python's d[k] = v on a dict modelled as a function
DictSet(d, k, v) == [x \in (DOMAIN d) \cup {k} |-> IF x = k THEN v ELSE d[x]]

\* the empty dict
EmptyDict == [x \in {} |-> <<>>]

\* ------------------------------------------------------------------------
\* Bounds of the model
\* ------------------------------------------------------------------------

\* the clock stops advancing at MaxTime minutes
MaxTime == 80

\* one step of the clock, in minutes
TickLen == 20

\* ------------------------------------------------------------------------
\* MistralAgent.__init__ and fetch_news (src/agent.py)
\* ------------------------------------------------------------------------

\* self.news_sources, the feed registry
news_sources ==
    [technology |-> <<"techcrunch", "wired">>,
     business   |-> <<"cnbc">>,
     politics   |-> <<"nyt_politics">>,
     science    |-> <<"science">>,
     general    |-> <<"nyt_home">>]

FeedURLs == {"techcrunch", "wired", "cnbc", "nyt_politics", "science", "nyt_home"}

\* categories a caller passes: registered ones and strings that are no key
CallCategories == {"technology", "general", "sports"}

\* timedelta(hours=1), in minutes
TTL == 60

\* feed.entries[:5]
TopN == 5

\* What feedparser.parse answers for one feed URL:
\*   raises  - parse itself raises
\*   n       - number of entries of the feed
\*   bad     - position of the first entry whose processing raises (an entry
\*             without title or link), 0 when there is none
FeedOk(n)      == [raises |-> FALSE, n |-> n, bad |-> 0]
FeedRaises     == [raises |-> TRUE,  n |-> 0, bad |-> 0]
FeedBadAt(n,k) == [raises |-> FALSE, n |-> n, bad |-> k]

\* the answers of all feeds at the time of one call
Worlds ==
    { [u \in FeedURLs |-> FeedOk(2)],
      [u \in FeedURLs |-> FeedRaises],
      [u \in FeedURLs |-> FeedOk(0)],
      [u \in FeedURLs |-> IF u = "techcrunch" THEN FeedBadAt(3, 2)
                          ELSE IF u = "wired" THEN FeedOk(6)
                          ELSE FeedOk(1)] }

\* the dict appended for entry i of feed u under answers w
Entry(u, i, w) == [source |-> u, k |-> i, of |-> w[u].n]

\* the entries one source appends to all_entries: the loop over
\* feed.entries[:5] inside the try, left at the first entry that raises
SourceEntries(u, w) ==
    LET a == w[u]
        top == Min(a.n, TopN)
        upto == IF a.raises THEN 0
                ELSE IF a.bad >= 1 /\ a.bad <= top THEN a.bad - 1
                ELSE top
    IN  [i \in 1..upto |-> Entry(u, i, w)]

\* whether the failure of source u leaves the loop: the body of the loop is
\* inside try / except Exception, so it never does
SourceEscapes(u, w) == FALSE

\* the for loop over sources: concatenation in registration order
RECURSIVE AllEntries(_, _)
AllEntries(srcs, w) ==
    IF srcs = <<>> THEN <<>>
    ELSE SourceEntries(Head(srcs), w) \o AllEntries(Tail(srcs), w)

\* whether an exception leaves fetch_news
FetchRaises(srcs, w) == \E i \in 1..Len(srcs) : SourceEscapes(srcs[i], w)

\* self.news_sources.get(category, self.news_sources["general"])
SourcesForEmptyDefault(category) ==
    IF category \in DOMAIN news_sources THEN news_sources[category] ELSE <<>>

SourcesFor(category) ==
    IF category \in DOMAIN news_sources THEN news_sources[category]
    ELSE news_sources["general"]

\* the cache test at the head of fetch_news, on the dict last and the time t
FreshReversed(last, t, category, force_refresh) ==
    /\ category \in DOMAIN last
    /\ t - last[category] > TTL
    /\ ~force_refresh

Fresh(last, t, category, force_refresh) ==
    /\ category \in DOMAIN last
    /\ t - last[category] < TTL
    /\ ~force_refresh

\* self.news_cache.get(category, [])
CacheGet(cache, category) ==
    IF category \in DOMAIN cache THEN cache[category] ELSE <<>>

\* fetch_news leaving the cache as it was when no source gave an entry
fetch_news_skip_empty(cache, last, t, category, force_refresh, w) ==
    LET srcs == SourcesFor(category)
        all_entries == AllEntries(srcs, w)
    IN  IF Fresh(last, t, category, force_refresh)
        THEN [cache |-> cache, last |-> last, ret |-> CacheGet(cache, category),
              parsed |-> <<>>, raised |-> FALSE]
        ELSE IF all_entries = <<>>
        THEN [cache |-> cache, last |-> last, ret |-> all_entries,
              parsed |-> srcs, raised |-> FALSE]
        ELSE [cache |-> DictSet(cache, category, all_entries),
              last |-> DictSet(last, category, t),
              ret |-> all_entries, parsed |-> srcs, raised |-> FALSE]

\* fetch_news(category, force_refresh) at time t, the agent holding the dicts
\* cache and last and the feeds answering w.  The result: the two dicts, the
\* value returned, the feeds parsed, and whether an exception left the call.
fetch_news(cache, last, t, category, force_refresh, w) ==
    LET srcs == SourcesFor(category)
        all_entries == AllEntries(srcs, w)
    IN  IF Fresh(last, t, category, force_refresh)
        THEN [cache |-> cache, last |-> last, ret |-> CacheGet(cache, category),
              parsed |-> <<>>, raised |-> FALSE]
        ELSE IF FetchRaises(srcs, w)
        THEN [cache |-> cache, last |-> last, ret |-> <<>>,
              parsed |-> srcs, raised |-> TRUE]
        ELSE [cache |-> DictSet(cache, category, all_entries),
              last |-> DictSet(last, category, t),
              ret |-> all_entries, parsed |-> srcs, raised |-> FALSE]

AgentStart ==
    /\ news_cache = EmptyDict
    /\ last_fetch = EmptyDict
    /\ now = 0
    /\ apc = "idle"
    /\ arg = [category |-> "general", force_refresh |-> FALSE]
    /\ ret = <<>>
    /\ parsed = <<>>
    /\ stored = EmptyDict

\* a caller invokes fetch_news(category, force_refresh)
CallFetchNews ==
    /\ apc \in {"idle", "returned", "raised"}
    /\ \E c \in CallCategories, f \in BOOLEAN :
           arg' = [category |-> c, force_refresh |-> f]
    /\ apc' = "called"
    /\ UNCHANGED <<news_cache, last_fetch, now, ret, parsed, stored>>
    /\ UNCHANGED <<scrapeVars, sumVars, mainVars, botVars, topicVars>>

\* the body of fetch_news; it has no await inside, so it runs as one step
FetchNews ==
    /\ apc = "called"
    /\ \E w \in Worlds :
         LET r == fetch_news(news_cache, last_fetch, now,
                             arg.category, arg.force_refresh, w)
         IN  /\ apc' = IF r.raised THEN "raised" ELSE "returned"
             /\ news_cache' = r.cache
             /\ last_fetch' = r.last
             /\ ret' = IF r.raised THEN ret ELSE r.ret
             /\ parsed' = r.parsed
             /\ stored' = IF r.parsed # <<>> /\ ~r.raised
                          THEN DictSet(stored, arg.category, r.ret)
                          ELSE stored
    /\ UNCHANGED <<now, arg>>
    /\ UNCHANGED <<scrapeVars, sumVars, mainVars, botVars, topicVars>>

\* time passes between calls
Tick ==
    /\ apc \in {"idle", "returned", "raised"}
    /\ now + TickLen <= MaxTime
    /\ now' = now + TickLen
    /\ UNCHANGED <<news_cache, last_fetch, apc, arg, ret, parsed, stored>>
    /\ UNCHANGED <<scrapeVars, sumVars, mainVars, botVars, topicVars>>

AgentNext == CallFetchNews \/ FetchNews \/ Tick

AgentInit == AgentStart /\ ScrapeIdle /\ SumIdle /\ MainIdle /\ BotIdle /\ TopicIdle

SpecAgent == AgentInit /\ [][AgentNext]_vars

\* ------------------------------------------------------------------------
\* Texts: a string is the sequence of its pieces; a piece has a tag t (where
\* it comes from), an index i, n characters once whitespace runs are
\* collapsed, and ws further characters of redundant whitespace
\* ------------------------------------------------------------------------

Piece(t, i, n, ws) == [t |-> t, i |-> i, n |-> n, ws |-> ws]

\* a string of n characters from one origin; the empty string when n = 0
Lit(t, n) == IF n <= 0 THEN <<>> ELSE <<Piece(t, 0, n, 0)>>

\* len(s)
RECURSIVE TextLen(_)
TextLen(x) ==
    IF x = <<>> THEN 0 ELSE Head(x).n + Head(x).ws + TextLen(Tail(x))

\* s[:k]
RECURSIVE Take(_, _)
Take(x, k) ==
    IF x = <<>> \/ k <= 0 THEN <<>>
    ELSE LET h == Head(x)
             l == h.n + h.ws
         IN  IF l <= k THEN <<h>> \o Take(Tail(x), k - l)
             ELSE <<[h EXCEPT !.n = Min(h.n, k), !.ws = k - Min(h.n, k)]>>

\* " ".join(list): a list of strings joined by single spaces
RECURSIVE JoinSp(_)
JoinSp(xs) ==
    IF xs = <<>> THEN <<>>
    ELSE IF Len(xs) = 1 THEN Head(xs)
    ELSE Head(xs) \o Lit(" ", 1) \o JoinSp(Tail(xs))

\* ' '.join(s.split()): whitespace runs collapse to single spaces
Normalize(x) == [k \in 1..Len(x) |-> [x[k] EXCEPT !.ws = 0]]

\* ------------------------------------------------------------------------
\* Pages: what requests.get and BeautifulSoup give scrape_article
\* ------------------------------------------------------------------------

\* a <p>: n characters of text, ws of them redundant whitespace inside it
Para(n, ws) == [n |-> n, ws |-> ws]

\* a container element: its <p> descendants and the length of its other text
Cont(paras, other) == [present |-> TRUE, paras |-> paras, other |-> other]
NoCont == [present |-> FALSE, paras |-> <<>>, other |-> 0]

\* len(p.get_text().strip())
ParaLen(p) == p.n + p.ws

\* p.get_text().strip() of paragraph k of container c
ParaText(c, k, p) == IF p.n = 0 THEN <<>> ELSE <<Piece(c, k, p.n, p.ws)>>

RECURSIVE SumParas(_)
SumParas(ps) == IF ps = <<>> THEN 0 ELSE Head(ps).n + SumParas(Tail(ps))

RECURSIVE SumWs(_)
SumWs(ps) == IF ps = <<>> THEN 0 ELSE Head(ps).ws + SumWs(Tail(ps))

\* element.get_text().strip(): the paragraphs' text and the other text
RawText(c, e) ==
    IF SumParas(e.paras) + e.other = 0 THEN <<>>
    ELSE <<Piece(c, 0, SumParas(e.paras) + e.other, SumWs(e.paras))>>

\* `article and article.text.strip()`
HasText(e) == e.present /\ SumParas(e.paras) + e.other > 0

\* [p.get_text().strip() for p in paragraphs if len(p.get_text().strip()) > m]
RECURSIVE LongParas(_, _, _, _)
LongParas(c, ps, k, m) ==
    IF k > Len(ps) THEN <<>>
    ELSE (IF ParaLen(ps[k]) > m THEN <<ParaText(c, k, ps[k])>> ELSE <<>>)
         \o LongParas(c, ps, k + 1, m)

\* [p.get_text().strip() for p in paragraphs]
AllParas(c, ps) == [k \in 1..Len(ps) |-> ParaText(c, k, ps[k])]

\* article_text[:5000] and the structured-data slices
MaxChars == 5000

\* paragraphs of a container shorter than this (or equal) are dropped
MinParaLen == 20

\* threshold of the page-wide paragraph search
MinLooseLen == 30

\* below this length the title / description / headings stand in
MinContent == 100

\* the largest div needs at least this many <p>
MinDivParas == 3

\* ------------------------------------------------------------------------
\* scrape_article (src/final.py)
\* ------------------------------------------------------------------------

\* a URL: its scheme, host and path, and the lengths of the whole string and
\* of url.split('//')[-1].split('/')[0]
HostLen(host) ==
    CASE host = "www.msn.com" -> 11
      [] host = "news.google.com" -> 15
      [] host = "www.bing.com" -> 12
      [] host = "www.microsoft.com" -> 17
      [] OTHER -> 6

Url(scheme, host, path) ==
    [scheme |-> scheme, host |-> host, path |-> path,
     len |-> (IF scheme = "https://" THEN 8 ELSE 7) + HostLen(host) + 2,
     dlen |-> HostLen(host)]

\* 'msn.com' in url
IsMsn(url) == url.host = "www.msn.com"

\* the except branch of scrape_article
ErrorPlaceholder(url) ==
    Lit("Article from ", 13) \o Lit("domain", url.dlen)
        \o Lit(". Unable to extract content.", 28)

\* the last return of scrape_article
UrlPlaceholder(url) ==
    Lit("Article from ", 13) \o Lit("url", url.len)
        \o Lit(". Unable to extract full content due to possible paywall or site restrictions.", 78)

\* The MSN block. done: the block returned; text: what it returned.
MsnBlock(page) ==
    LET m == page.msn
        headline_text == Lit("h1", m.h1)
        article_text == IF m.content.present
                        THEN JoinSp(AllParas("articlecontent", m.content.paras))
                        ELSE <<>>
        meta == Lit("meta", page.metaName)
    IN  CASE m.jsonld = "body" ->
                 [done |-> TRUE, text |-> Take(Lit("articleBody", m.len), MaxChars)]
          [] m.jsonld = "desc" ->
                 [done |-> TRUE, text |-> Take(Lit("description", m.len), MaxChars)]
          [] m.jsonld = "body_null" ->
                 \* None[:5000] raises TypeError, caught by the block's except
                 [done |-> FALSE, text |-> <<>>]
          [] OTHER ->
                 IF m.h1 < 0 THEN [done |-> FALSE, text |-> <<>>]
                 ELSE IF article_text # <<>>
                 THEN [done |-> TRUE,
                       text |-> headline_text \o Lit(". ", 2) \o article_text]
                 ELSE IF meta # <<>>
                 THEN [done |-> TRUE, text |-> headline_text \o Lit(". ", 2) \o meta]
                 ELSE [done |-> TRUE, text |-> headline_text]

\* the candidates tried with the <article> container before the test-id
\* element
ChosenContainerArticleFirst(page) ==
    LET c == page.cont
    IN  IF HasText(c.article) THEN "article"
        ELSE IF HasText(c.testid) THEN "testid"
        ELSE IF HasText(c.class) THEN "class"
        ELSE IF HasText(c.main) THEN "main"
        ELSE IF Len(page.div.paras) >= MinDivParas /\ HasText(page.div) THEN "div"
        ELSE "none"

\* Methods 1 to 5: the container the text is taken from, "none" if there is none
ChosenContainer(page) ==
    LET c == page.cont
    IN  IF HasText(c.testid) THEN "testid"
        ELSE IF HasText(c.article) THEN "article"
        ELSE IF HasText(c.class) THEN "class"
        ELSE IF HasText(c.main) THEN "main"
        ELSE IF Len(page.div.paras) >= MinDivParas /\ HasText(page.div) THEN "div"
        ELSE "none"

ContainerOf(page, name) ==
    IF name = "div" THEN page.div ELSE page.cont[name]

\* the text of the chosen container: its paragraphs longer than 20
\* characters joined by spaces, else its whole text
ContainerText(name, e) ==
    LET content_paragraphs == LongParas(name, e.paras, 1, MinParaLen)
    IN  IF content_paragraphs # <<>> THEN JoinSp(content_paragraphs)
        ELSE RawText(name, e)

\* soup.find_all("p") when no container had text: the paragraphs of the
\* <nav>, of a div that was not accepted and those outside every container
PageParas(page) ==
    LongParas("nav", page.nav, 1, MinLooseLen)
        \o LongParas("div", page.div.paras, 1, MinLooseLen)
        \o LongParas("loose", page.loose, 1, MinLooseLen)

\* element.decompose() for script, style, nav, footer, header, aside, iframe
\* and noscript: of these the pages of the model hold a <nav>
Decompose(page) == [page EXCEPT !.nav = <<>>]

\* meta_desc: the name="description" tag if there is one, else og:description
MetaDesc(page) ==
    IF page.metaName >= 0 THEN Lit("meta", page.metaName)
    ELSE Lit("og", page.metaOg)

\* the part of scrape_article after the MSN block
GenericExtract(url, page) ==
    LET title == Lit("title", page.title)
        meta_desc == MetaDesc(page)
        soup == Decompose(page)
        name == ChosenContainer(soup)
        fromContainer == IF name = "none" THEN <<>>
                         ELSE ContainerText(name, ContainerOf(soup, name))
        raw == IF fromContainer # <<>> THEN fromContainer
               ELSE JoinSp(PageParas(soup))
        article_text == Normalize(raw)
        headings == [k \in 1..Len(page.headings) |-> Lit("h", page.headings[k])]
    IN  IF TextLen(article_text) < MinContent /\ (title # <<>> \/ meta_desc # <<>>)
        THEN IF title # <<>> /\ meta_desc # <<>>
             THEN title \o Lit(". ", 2) \o meta_desc
             ELSE IF title # <<>> THEN title ELSE meta_desc
        ELSE IF TextLen(article_text) < MinContent /\ headings # <<>>
        THEN JoinSp(headings)
        ELSE IF article_text # <<>> THEN Take(article_text, MaxChars)
        ELSE UrlPlaceholder(url)

\* page.exc: "fetch" when requests.get raises, "extract" when parsing the
\* document raises (inside the MSN block that is caught by the block's own
\* except, after it by the outer one), "none" otherwise
scrape_article(url, page) ==
    IF page.exc = "fetch" THEN ErrorPlaceholder(url)
    ELSE IF page.status # 200 THEN <<>>
    ELSE IF /\ IsMsn(url)
            /\ MsnBlock(page).done
            /\ (page.exc = "none" \/ page.msn.jsonld \in {"body", "desc"})
    THEN MsnBlock(page).text
    ELSE IF page.exc = "extract" THEN ErrorPlaceholder(url)
    ELSE GenericExtract(url, page)

\* ---- the pages the model draws from ----

NoMsn == [jsonld |-> "none", len |-> 0, h1 |-> -1, content |-> NoCont]

ThreeParas == Cont(<<Para(21, 0), Para(40, 2), Para(60, 0)>>, 15)

NoConts == [testid |-> NoCont, article |-> NoCont, class |-> NoCont, main |-> NoCont]

ContConfigs ==
    { [testid |-> a, article |-> b, class |-> c, main |-> d] :
        a \in {NoCont, ThreeParas},
        b \in {NoCont, Cont(<<>>, 0), Cont(<<Para(20, 0), Para(10, 0)>>, 0),
               Cont(<<Para(3000, 0), Para(3000, 0)>>, 0)},
        c \in {NoCont, Cont(<<>>, 50)},
        d \in {NoCont, Cont(<<Para(30, 0), Para(90, 5)>>, 0)} }

DivChoices ==
    { NoCont, Cont(<<Para(31, 0), Para(10, 0)>>, 0),
      Cont(<<Para(40, 0), Para(40, 0), Para(40, 0), Para(40, 0)>>, 0) }

LooseChoices == { <<>>, <<Para(30, 0), Para(31, 0)>>, <<Para(200, 10)>> }

HeadingChoices == { <<>>, <<0>>, <<0, 0>>, <<40, 50>>, <<3000, 3000>> }

GenericPages ==
    { [exc |-> "none", status |-> 200, msn |-> NoMsn, title |-> t,
       metaName |-> mn, metaOg |-> mo, cont |-> cc, div |-> dv, loose |-> lo,
       nav |-> <<>>, headings |-> hs] :
        t \in {0, 30, 6000}, mn \in {-1, 0, 40}, mo \in {0, 50},
        cc \in ContConfigs, dv \in DivChoices, lo \in LooseChoices,
        hs \in HeadingChoices }

\* an ordinary article page and pages with nothing to extract
ArticlePage ==
    [exc |-> "none", status |-> 200, msn |-> NoMsn, title |-> 30,
     metaName |-> 40, metaOg |-> 0,
     cont |-> [NoConts EXCEPT !.article =
                 Cont(<<Para(120, 0), Para(80, 3), Para(60, 0)>>, 10)],
     div |-> NoCont, loose |-> <<>>, nav |-> <<Para(45, 0)>>, headings |-> <<40>>]

BarePage ==
    [exc |-> "none", status |-> 200, msn |-> NoMsn, title |-> 0,
     metaName |-> -1, metaOg |-> 0, cont |-> NoConts, div |-> NoCont,
     loose |-> <<>>, nav |-> <<>>, headings |-> <<>>]

BasePages ==
    { ArticlePage, BarePage,
      [BarePage EXCEPT !.title = 6000],
      [BarePage EXCEPT !.headings = <<0>>] }

MsnChoices ==
    { [jsonld |-> j, len |-> l, h1 |-> h, content |-> c] :
        j \in {"body", "desc"}, l \in {0, 40, 6000}, h \in {-1}, c \in {NoCont} }
    \cup
    { [jsonld |-> j, len |-> 0, h1 |-> h, content |-> c] :
        j \in {"none", "invalid", "nondict", "other", "body_null"},
        h \in {-1, 0, 25, 6000},
        c \in {NoCont, Cont(<<>>, 0), Cont(<<Para(0, 0), Para(0, 0)>>, 0),
               Cont(<<Para(50, 0)>>, 0), Cont(<<Para(6000, 0)>>, 0)} }

MsnPages ==
    { [b EXCEPT !.msn = m, !.metaName = mn] :
        b \in BasePages, m \in MsnChoices, mn \in {-1, 0, 40, 6000} }

FailedPages ==
    { [b EXCEPT !.exc = e, !.status = st] :
        b \in BasePages, e \in {"none", "fetch", "extract"}, st \in {200, 404, 500} }

\* pages with a <nav> and an <article> of three paragraphs of 20 characters
\* or more
NavParaLens == {20, 21, 33, 34, 60}

NavPages ==
    { [BarePage EXCEPT !.title = t, !.metaName = mn, !.headings = hs,
                       !.nav = <<Para(45, 0), Para(25, 0)>>,
                       !.cont.article = Cont(<<Para(a, 0), Para(b, 1), Para(c, 0)>>, o)] :
        t \in {0, 30}, mn \in {-1, 40}, hs \in {<<>>, <<40>>}, o \in {0, 12},
        a \in NavParaLens, b \in NavParaLens, c \in NavParaLens }

Pages == GenericPages \cup MsnPages \cup FailedPages \cup NavPages

ScrapeURLs == { Url("https://", "a.test", 1), Url("https://", "www.msn.com", 2) }

\* ---- scrape_article applied to one url and one page ----

ScrapeInit ==
    /\ AgentStart
    /\ TopicIdle
    /\ BotIdle
    /\ SumIdle
    /\ MainIdle
    /\ spc = "input"
    /\ surl \in ScrapeURLs
    /\ spage \in Pages
    /\ sret = <<>>

Scrape ==
    /\ spc = "input"
    /\ spc' = "done"
    /\ sret' = scrape_article(surl, spage)
    /\ UNCHANGED <<surl, spage>>
    /\ UNCHANGED <<agentVars, sumVars, mainVars, botVars, topicVars>>

ScrapeNext == Scrape

SpecScrape == ScrapeInit /\ [][ScrapeNext]_vars

\* ------------------------------------------------------------------------
\* summarize_news (src/final.py)
\* ------------------------------------------------------------------------

\* The text of a summary is a sequence of tokens:
\*   "w"   a run of words with no ". " and no blank line in it
\*   "dot" the two characters ". "
\*   "end" a "." that no space follows
\*   "brk" a blank line, "\n\n"
\*   "sp"  a single space
\*   "s"   sentence id of an article, with its closing "."
\*   "sb"  such a sentence that holds a blank line inside it
\*   "msg" one of the fixed messages
Tok(k, id) == [k |-> k, id |-> id]
W == Tok("w", 0)
Dot == Tok("dot", 0)
End == Tok("end", 0)
Brk == Tok("brk", 0)
Sp == Tok("sp", 0)
Msg(id) == <<Tok("msg", id)>>

\* an article handed to the summarizer: len(article.strip()) and the ids of
\* its non-empty sentences, [s for s in article.split('.') if s.strip()]
Article(len, sents) == [len |-> len, sents |-> sents]

\* what mistral.chat.complete does: it raises, or it returns a text;
\* ind tells whether the text holds one of the missing-content indicators
LLMRaises == [kind |-> "raise", toks |-> <<>>, ind |-> FALSE]
LLMText(toks, ind) == [kind |-> "text", toks |-> toks, ind |-> ind]

\* s[lo:hi] of Python, clamped to the list
Slice(x, lo, hi) == SubSeq(x, Min(lo, Len(x)) + 1, Min(hi, Len(x)))

\* summary.count('\n\n'): the blank lines between paragraphs and those
\* inside a sentence taken over from an article
CountBrk(x) == Cardinality({i \in 1..Len(x) : x[i].k \in {"brk", "sb"}})

\* summary.split('. ')
RECURSIVE SplitDot(_)
SplitDot(x) ==
    IF \A i \in 1..Len(x) : x[i].k # "dot" THEN <<x>>
    ELSE LET i == CHOOSE j \in 1..Len(x) :
                      x[j].k = "dot" /\ \A h \in 1..(j - 1) : x[h].k # "dot"
         IN  <<SubSeq(x, 1, i - 1)>> \o SplitDot(SubSeq(x, i + 1, Len(x)))

\* sep.join(list)
RECURSIVE JoinTok(_, _)
JoinTok(xs, sep) ==
    IF xs = <<>> THEN <<>>
    ELSE IF Len(xs) = 1 THEN Head(xs)
    ELSE Head(xs) \o <<sep>> \o JoinTok(Tail(xs), sep)

\* para3.endswith('.')
EndsWithPeriod(x) == x # <<>> /\ x[Len(x)].k \in {"end", "s"}

\* a summary needs this many blank lines
MinBreaks == 2

\* the re-split needs this many sentences
MinSentences == 6

\* an article is valid when it is longer than this
MinArticleLen == 50

\* sentences taken from each article by the extractive summary
SentencesPerArticle == 5

\* the re-split of a summary into three paragraphs
Resplit(summary) ==
    LET sentences == SplitDot(summary)
        third == Len(sentences) \div 3
        para1 == JoinTok(Slice(sentences, 0, third), Dot) \o <<End>>
        para2 == JoinTok(Slice(sentences, third, 2 * third), Dot) \o <<End>>
        p3 == JoinTok(Slice(sentences, 2 * third, Len(sentences)), Dot)
        para3 == IF EndsWithPeriod(p3) THEN p3 ELSE p3 \o <<End>>
    IN  para1 \o <<Brk>> \o para2 \o <<Brk>> \o para3

\* "Ensure the summary has proper paragraph breaks"
EnsureBreaks(summary) ==
    IF CountBrk(summary) < MinBreaks /\ Len(SplitDot(summary)) >= MinSentences
    THEN Resplit(summary)
    ELSE summary

\* the sentences of the articles that hold a blank line inside them (scraped
\* text that was not whitespace-normalised, such as an articleBody)
BlankLineIds == {90}

\* s.strip() + '.' for sentence id of an article
SentenceTok(id) == Tok(IF id \in BlankLineIds THEN "sb" ELSE "s", id)

\* up to 5 sentences of each article, in article order
RECURSIVE Selected(_)
Selected(arts) ==
    IF arts = <<>> THEN <<>>
    ELSE Slice(Head(arts).sents, 0, SentencesPerArticle)
         \o Selected(Tail(arts))

\* the extractive summary with third = len(sentences) // 3, without the
\* max(1, ...)
ExtractiveNoFloor(valid_articles) ==
    LET ids == Selected(valid_articles)
        sentences == [i \in 1..Len(ids) |-> <<SentenceTok(ids[i])>>]
        third == Len(sentences) \div 3
        para1 == JoinTok(Slice(sentences, 0, third), Sp)
        para2 == JoinTok(Slice(sentences, third, 2 * third), Sp)
        para3 == JoinTok(Slice(sentences, 2 * third, 3 * third), Sp)
    IN  IF sentences # <<>>
        THEN para1 \o <<Brk>> \o para2 \o <<Brk>> \o para3
        ELSE Msg("Insufficient content available to generate a summary.")

\* the summary built without the LLM
Extractive(valid_articles) ==
    LET ids == Selected(valid_articles)
        sentences == [i \in 1..Len(ids) |-> <<SentenceTok(ids[i])>>]
        third == Max(1, Len(sentences) \div 3)
        para1 == JoinTok(Slice(sentences, 0, third), Sp)
        para2 == JoinTok(Slice(sentences, third, 2 * third), Sp)
        para3 == JoinTok(Slice(sentences, 2 * third, 3 * third), Sp)
    IN  IF sentences # <<>>
        THEN para1 \o <<Brk>> \o para2 \o <<Brk>> \o para3
        ELSE Msg("Insufficient content available to generate a summary.")

\* [article for article in arts if len(article.strip()) > 50], else all
ValidArticles(arts) ==
    LET valid == SelectSeq(arts, LAMBDA a : a.len > MinArticleLen)
    IN  IF valid = <<>> THEN arts ELSE valid

\* summarize_news making the alternate-prompt call after every first
\* response, with or without an indicator in it
summarize_news_always_retry(arts, r1, r2) ==
    LET valid_articles == ValidArticles(arts)
    IN  IF arts = <<>>
        THEN [summary |-> Msg("No valid articles found to summarize."),
              calls |-> 0, raised |-> FALSE]
        ELSE IF r1.kind = "raise"
        THEN [summary |-> Extractive(valid_articles), calls |-> 1, raised |-> FALSE]
        ELSE IF r2.kind = "raise"
        THEN [summary |-> Extractive(valid_articles), calls |-> 2, raised |-> FALSE]
        ELSE [summary |-> EnsureBreaks(IF r2.kind = "text" THEN r2.toks ELSE r1.toks),
              calls |-> 2, raised |-> FALSE]

\* summarize_news(arts), r1 and r2 being the LLM's answers to the first
\* and to the alternate prompt.  raised: an exception leaves the function.
summarize_news(arts, r1, r2) ==
    LET valid_articles == ValidArticles(arts)
    IN  IF arts = <<>>
        THEN [summary |-> Msg("No valid articles found to summarize."),
              calls |-> 0, raised |-> FALSE]
        ELSE IF r1.kind = "raise"
        THEN [summary |-> Extractive(valid_articles), calls |-> 1, raised |-> FALSE]
        ELSE IF ~r1.ind
        THEN [summary |-> EnsureBreaks(r1.toks), calls |-> 1, raised |-> FALSE]
        ELSE IF r2.kind = "raise"
        THEN [summary |-> Extractive(valid_articles), calls |-> 2, raised |-> FALSE]
        ELSE [summary |-> EnsureBreaks(r2.toks), calls |-> 2, raised |-> FALSE]

\* ---- the inputs the model draws from ----

\* longest LLM text, in tokens
MaxTokens == 6

TokSeqs(n) == UNION { [1..k -> {W, Dot, End, Brk}] : k \in 0..n }

Responses ==
    {LLMRaises}
    \cup { LLMText(t, FALSE) : t \in TokSeqs(MaxTokens) }
    \cup { LLMText(t, TRUE) : t \in TokSeqs(1) }

AltResponses ==
    {LLMRaises}
    \cup { LLMText(t, b) :
             t \in { <<>>, <<W, Dot, W, End>>,
                     <<W, Dot, W, Dot, W, Dot, W, Dot, W, Dot, W, Dot, W, End>>,
                     <<W, End, Brk, W, End, Brk, W, End>> },
             b \in BOOLEAN }

NoResponse == [kind |-> "none", toks |-> <<>>, ind |-> FALSE]

ArticleLists ==
    { <<>>,
      <<Article(200, <<1, 2, 3>>), Article(300, <<4, 5, 6, 7, 8, 9, 10>>),
        Article(60, <<11>>)>>,
      <<Article(10, <<1>>), Article(20, <<2>>), Article(30, <<>>)>>,
      <<Article(10, <<1>>), Article(100, <<2, 3>>), Article(5000, <<4, 5, 6, 7>>)>>,
      <<Article(51, <<>>)>>,
      <<Article(120, <<1>>)>>,
      <<Article(120, <<1, 2>>), Article(50, <<3, 4, 5>>)>>,
      <<Article(400, <<1, 90, 2>>), Article(200, <<3, 4, 5, 6>>)>> }

SumInit ==
    /\ AgentStart
    /\ TopicIdle
    /\ BotIdle
    /\ ScrapeIdle
    /\ MainIdle
    /\ zpc = "input"
    /\ zarticles \in ArticleLists
    /\ zr1 \in Responses
    /\ zr2 \in IF zr1.kind = "text" /\ zr1.ind THEN AltResponses ELSE {NoResponse}
    /\ zout = "none"

Summarize ==
    /\ zpc = "input"
    /\ zpc' = "done"
    /\ zout' = summarize_news(zarticles, zr1, zr2)
    /\ UNCHANGED <<zarticles, zr1, zr2>>
    /\ UNCHANGED <<agentVars, scrapeVars, mainVars, botVars, topicVars>>

SumNext == Summarize

SpecSummarize == SumInit /\ [][SumNext]_vars

\* ------------------------------------------------------------------------
\* get_news_urls (src/final.py)
\* ------------------------------------------------------------------------

\* An href or a feed link: what it starts with (pre), the host it names and
\* the rest.  pre is "./articles", "http://", "https://", "/" or "nolink"
\* (a feed item without a link element).
Href(pre, host, path) == [pre |-> pre, host |-> host, path |-> path]

\* href.startswith('./articles')
IsGoogleArticle(h) == h.pre = "./articles"

\* 'https://news.google.com' + href[1:]
GoogleUrl(h) == Url("https://", "news.google.com", h.path)

\* href.startswith(('http://', 'https://'))
IsAbsolute(h) == h.pre \in {"http://", "https://"}

\* ... and 'bing' not in href and 'microsoft' not in href
IsBingResult(h) ==
    IsAbsolute(h) /\ h.host \notin {"www.bing.com", "www.microsoft.com"}

\* at most this many links are returned
MaxLinks == 5

\* below this many Google links the Bing search is made
MinGoogleLinks == 3

\* the loop over the anchors of the Google News page
RECURSIVE GoogleLinks(_)
GoogleLinks(hrefs) ==
    IF hrefs = <<>> THEN <<>>
    ELSE (IF IsGoogleArticle(Head(hrefs)) THEN <<GoogleUrl(Head(hrefs))>> ELSE <<>>)
         \o GoogleLinks(Tail(hrefs))

\* the loop over the anchors of the Bing page: append, and leave the loop
\* once the list holds 5 links
RECURSIVE BingLinks(_, _)
BingLinks(links, hrefs) ==
    IF hrefs = <<>> THEN links
    ELSE LET h == Head(hrefs)
         IN  IF IsBingResult(h)
             THEN LET more == Append(links, Url(h.pre, h.host, h.path))
                  IN  IF Len(more) >= MaxLinks THEN more
                      ELSE BingLinks(more, Tail(hrefs))
             ELSE BingLinks(links, Tail(hrefs))

\* "Take the first 5 unique links"
RECURSIVE UniqueLinks(_, _)
UniqueLinks(links, unique_links) ==
    IF links = <<>> THEN unique_links
    ELSE IF \E i \in 1..Len(unique_links) : unique_links[i] = Head(links)
    THEN UniqueLinks(Tail(links), unique_links)
    ELSE IF Len(unique_links) + 1 >= MaxLinks THEN Append(unique_links, Head(links))
    ELSE UniqueLinks(Tail(links), Append(unique_links, Head(links)))

\* the loop over items[:5] of the RSS feed
RECURSIVE RssLinks(_)
RssLinks(items) ==
    IF items = <<>> THEN <<>>
    ELSE (IF IsAbsolute(Head(items))
          THEN <<Url(Head(items).pre, Head(items).host, Head(items).path)>>
          ELSE <<>>)
         \o RssLinks(Tail(items))

\* the URLs of a list of links
LinkSet(links) == { links[i] : i \in 1..Len(links) }

\* every anchor of the Bing page that passes the filter of the loop
RECURSIVE BingMatching(_)
BingMatching(hrefs) ==
    IF hrefs = <<>> THEN <<>>
    ELSE (IF IsBingResult(Head(hrefs))
          THEN <<Url(Head(hrefs).pre, Head(hrefs).host, Head(hrefs).path)>>
          ELSE <<>>)
         \o BingMatching(Tail(hrefs))

\* ---- what the three searches answer ----

GA(k) == Href("./articles", "", k)
XA(k) == Href("https://", "a.test", k)
XB(k) == Href("http://", "b.test", k)

\* kind: "exc" the request raises; "status" a non-200 answer; "ok" a page
Answer(kind, hrefs) == [kind |-> kind, hrefs |-> hrefs]

GoogleAnswers ==
    { Answer("exc", <<>>), Answer("status", <<GA(1), GA(2), GA(3)>>),
      Answer("ok", <<>>),
      Answer("ok", <<Href("/", "", 1), XA(1)>>),
      Answer("ok", <<GA(1), Href("/", "", 1), GA(2)>>),
      Answer("ok", <<GA(1), GA(1)>>),
      Answer("ok", <<GA(1), GA(1), GA(2), GA(2)>>),
      Answer("ok", <<GA(1), GA(2), GA(3)>>),
      Answer("ok", <<GA(1), GA(2), GA(1), GA(3), GA(4), GA(5), GA(6), GA(7)>>) }

BingAnswers ==
    { Answer("exc", <<>>), Answer("ok", <<>>),
      Answer("status", <<XA(1)>>),
      Answer("ok", <<Href("https://", "www.bing.com", 1), XA(1), XA(1),
                     Href("https://", "www.microsoft.com", 1), XB(1)>>),
      Answer("ok", <<XA(1), XA(1), XA(1), XA(1), XA(2), XA(3), XA(4)>>),
      Answer("ok", <<XA(1), XA(2), XA(3), XB(1), XB(2), XB(3)>>) }

RssAnswers ==
    { Answer("exc", <<>>), Answer("status", <<XA(1)>>), Answer("ok", <<>>),
      Answer("ok", <<Href("nolink", "", 0), Href("/", "", 1)>>),
      Answer("ok", <<XA(5)>>),
      Answer("ok", <<XA(5), XA(5), XB(5)>>),
      Answer("ok", <<XA(1), XA(2), XA(3), XA(4), XA(5), XA(6), XA(7)>>) }

\* ------------------------------------------------------------------------
\* main and get_news_sources (src/final.py)
\* ------------------------------------------------------------------------

\* what the LLM answers get_news_sources: the non-empty lines of its text
SourceAnswers ==
    { [kind |-> "raise", lines |-> <<>>],
      [kind |-> "text", lines |-> <<>>],
      [kind |-> "text", lines |-> <<"Reuters", "BBC News", "The Guardian">>] }

\* the pages a run of main meets
MainPages ==
    { ArticlePage,
      [ArticlePage EXCEPT !.status = 404],
      [ArticlePage EXCEPT !.exc = "fetch"],
      [BarePage EXCEPT !.headings = <<0>>] }

\* the LLM answers a run of main meets
MainResponses ==
    { LLMRaises, LLMText(<<W, Dot, W, End>>, FALSE), LLMText(<<W, End>>, TRUE) }

MainAltResponses ==
    { LLMRaises, LLMText(<<W, End, Brk, W, End, Brk, W, End>>, FALSE) }

\* the article a scraped text is for summarize_news: its length, and one
\* sentence for each piece that is not a separator
RECURSIVE SentenceIds(_, _)
SentenceIds(text, k) ==
    IF k > Len(text) THEN <<>>
    ELSE (IF text[k].t \in {" ", ". "} THEN <<>> ELSE <<k>>)
         \o SentenceIds(text, k + 1)

AsArticle(text) == Article(TextLen(text), SentenceIds(text, 1))

MainInit ==
    /\ AgentStart
    /\ TopicIdle
    /\ BotIdle
    /\ ScrapeIdle
    /\ SumIdle
    /\ pc = "sources"
    /\ sources = <<>>
    /\ article_links = <<>>
    /\ backup_urls = <<>>
    /\ urls = <<>>
    /\ tried = <<>>
    /\ failed = {}
    /\ offered = {}
    /\ fetched = <<>>
    /\ articles = <<>>
    /\ llmCalls = 0
    /\ out = "none"

\* main without its `if not urls` check: an empty list goes on to the
\* summarizer
ReturnUrlsUnchecked(u) ==
    /\ urls' = u
    /\ out' = out
    /\ pc' = IF u = <<>> THEN "summarize" ELSE "scrape"

\* get_news_urls returns u to main: `if not urls` ends the run, else the
\* scraping loop starts
ReturnUrls(u) ==
    /\ urls' = u
    /\ IF u = <<>>
       THEN pc' = "done" /\ out' = "no_urls"
       ELSE pc' = "scrape" /\ out' = out

\* sources = get_news_sources(topic): one LLM call, not guarded; its
\* exception is caught by main's `except Exception`
GetNewsSources ==
    /\ pc = "sources"
    /\ \E a \in SourceAnswers :
         IF a.kind = "raise"
         THEN /\ pc' = "done"
              /\ out' = "error"
              /\ UNCHANGED sources
         ELSE /\ pc' = "google"
              /\ sources' = a.lines
              /\ UNCHANGED out
    /\ UNCHANGED <<article_links, backup_urls, urls, tried, failed, offered,
                   fetched, articles, llmCalls>>
    /\ UNCHANGED <<agentVars, scrapeVars, sumVars, botVars, topicVars>>

\* get_news_urls, the Google News request and the loop over its anchors
GoogleSearch ==
    /\ pc = "google"
    /\ tried' = Append(tried, "google")
    /\ \E g \in GoogleAnswers :
         IF g.kind # "ok"
         THEN \* requests.get or raise_for_status raises: to the except branch
              /\ pc' = "rss"
              /\ failed' = failed \cup {"google"}
              /\ UNCHANGED <<article_links, urls, out, offered>>
         ELSE LET links == GoogleLinks(g.hrefs)
              IN  /\ article_links' = links
                  /\ offered' = offered \cup LinkSet(links)
                  /\ failed' = failed
                  /\ IF Len(links) < MinGoogleLinks
                     THEN pc' = "bing" /\ UNCHANGED <<urls, out>>
                     ELSE ReturnUrls(UniqueLinks(links, <<>>))
    /\ UNCHANGED <<sources, backup_urls, fetched, articles, llmCalls>>
    /\ UNCHANGED <<agentVars, scrapeVars, sumVars, botVars, topicVars>>

\* get_news_urls, the Bing request (its status is not looked at), the loop
\* over its anchors and the selection of the unique links
BingSearch ==
    /\ pc = "bing"
    /\ tried' = Append(tried, "bing")
    /\ \E b \in BingAnswers :
         IF b.kind = "exc"
         THEN /\ pc' = "rss"
              /\ failed' = failed \cup {"bing"}
              /\ UNCHANGED <<article_links, urls, out, offered>>
         ELSE LET links == BingLinks(article_links, b.hrefs)
              IN  /\ article_links' = links
                  /\ offered' = offered \cup LinkSet(BingMatching(b.hrefs))
                  /\ failed' = IF b.kind = "status" THEN failed \cup {"bing"}
                               ELSE failed
                  /\ ReturnUrls(UniqueLinks(links, <<>>))
    /\ UNCHANGED <<sources, backup_urls, fetched, articles, llmCalls>>
    /\ UNCHANGED <<agentVars, scrapeVars, sumVars, botVars, topicVars>>

\* get_news_urls, the except branch: the RSS request and what follows it.
\* With no RSS link the code reads `sources`, which is no name of
\* get_news_urls and no global: NameError, caught by the branch's own except,
\* which returns [].
RssSearch ==
    /\ pc = "rss"
    /\ tried' = Append(tried, "rss")
    /\ \E r \in RssAnswers :
         IF r.kind # "ok"
         THEN /\ failed' = failed \cup {"rss"}
              /\ UNCHANGED <<backup_urls, offered>>
              /\ ReturnUrls(<<>>)
         ELSE LET links == RssLinks(Slice(r.hrefs, 0, MaxLinks))
              IN  /\ backup_urls' = links
                  /\ offered' = offered \cup LinkSet(RssLinks(r.hrefs))
                  /\ failed' = failed
                  /\ IF links # <<>> THEN ReturnUrls(links) ELSE ReturnUrls(<<>>)
    /\ UNCHANGED <<sources, article_links, fetched, articles, llmCalls>>
    /\ UNCHANGED <<agentVars, scrapeVars, sumVars, botVars, topicVars>>

\* one round of main's loop over urls: scrape_article and the append; after
\* the last url, `if not articles` ends the run
ScrapeNextUrl ==
    /\ pc = "scrape"
    /\ \E page \in MainPages :
         LET url == urls[Len(fetched) + 1]
             article_text == scrape_article(url, page)
             batch == IF article_text # <<>> THEN Append(articles, article_text)
                      ELSE articles
         IN  /\ fetched' = Append(fetched, page)
             /\ articles' = batch
             /\ IF Len(fetched) + 1 < Len(urls)
                THEN pc' = "scrape" /\ out' = out
                ELSE IF batch = <<>>
                THEN pc' = "done" /\ out' = "no_content"
                ELSE pc' = "summarize" /\ out' = out
    /\ UNCHANGED <<sources, article_links, backup_urls, urls, tried, failed,
                   offered, llmCalls>>
    /\ UNCHANGED <<agentVars, scrapeVars, sumVars, botVars, topicVars>>

\* summary = summarize_news(articles); print(summary)
SummarizeBatch ==
    /\ pc = "summarize"
    /\ \E r1 \in MainResponses, r2 \in MainAltResponses :
         LET batch == [i \in 1..Len(articles) |-> AsArticle(articles[i])]
             res == summarize_news(batch, r1, r2)
         IN  /\ llmCalls' = res.calls
             /\ out' = IF res.raised THEN "error" ELSE "summary"
    /\ pc' = "done"
    /\ UNCHANGED <<sources, article_links, backup_urls, urls, tried, failed,
                   offered, fetched, articles>>
    /\ UNCHANGED <<agentVars, scrapeVars, sumVars, botVars, topicVars>>

MainNext ==
    \/ GetNewsSources
    \/ GoogleSearch
    \/ BingSearch
    \/ RssSearch
    \/ ScrapeNextUrl
    \/ SummarizeBatch

SpecMain == MainInit /\ [][MainNext]_vars

\* ------------------------------------------------------------------------
\* on_message (src/bot.py), MistralAgent.run, process_command, search_news
\* and summarize_article (src/agent.py)
\* ------------------------------------------------------------------------

\* the keys of self.news_sources in the order the refresh loop visits them
RegistryOrder == <<"technology", "business", "politics", "science", "general">>

\* The messages: kind "bot" (from a bot, or starting with "!"), "list" (news
\* or news <category>), "summary" (news summary <url>), "refresh" (news
\* refresh), "query" (news <anything else>), "chat" (no news command).
Message(kind, cat) == [kind |-> kind, cat |-> cat]

Messages ==
    { Message("bot", "none"), Message("list", "general"),
      Message("list", "technology"), Message("summary", "none"),
      Message("refresh", "none"), Message("query", "none"),
      Message("chat", "none") }

\* what an awaited LLM call does: a text, an empty text, an exception
LLMOutcomes == {"text", "empty", "raise"}

\* the feed answers the bot meets
BotWorlds ==
    { [u \in FeedURLs |-> FeedOk(2)],
      [u \in FeedURLs |-> FeedRaises] }

\* the loop `for category in self.news_sources: fetch_news(category, True)`
RECURSIVE RefreshAll(_, _, _, _, _)
RefreshAll(cache, last, t, cats, w) ==
    IF cats = <<>> THEN [cache |-> cache, last |-> last, raised |-> FALSE]
    ELSE LET r == fetch_news(cache, last, t, Head(cats), TRUE, w)
         IN  IF r.raised THEN [cache |-> r.cache, last |-> r.last, raised |-> TRUE]
             ELSE RefreshAll(r.cache, r.last, t, Tail(cats), w)

BotInit ==
    /\ AgentStart
    /\ TopicIdle
    /\ ScrapeIdle
    /\ SumIdle
    /\ MainIdle
    /\ hpc = [h \in Handlers |-> "idle"]
    /\ hmsg = [h \in Handlers |-> Message("none", "none")]
    /\ hres = [h \in Handlers |-> "none"]

\* the handler: its position and the outcome of its message
Goto(h, where, result) ==
    /\ hpc' = [hpc EXCEPT ![h] = where]
    /\ hres' = [hres EXCEPT ![h] = result]

\* the two dict writes with a suspension between them: the list is written,
\* the timestamp is not yet
SetCacheTorn(r, category) ==
    /\ news_cache' = r.cache
    /\ last_fetch' = last_fetch
    /\ stored' = IF r.parsed # <<>> /\ ~r.raised
                 THEN DictSet(stored, category, r.ret)
                 ELSE stored

\* the agent's dicts after a call that returned r
SetCache(r, category) ==
    /\ news_cache' = r.cache
    /\ last_fetch' = r.last
    /\ stored' = IF r.parsed # <<>> /\ ~r.raised
                 THEN DictSet(stored, category, r.ret)
                 ELSE stored

\* a message arrives: on_message starts and suspends at
\* `await bot.process_commands(message)`
Receive(h) ==
    /\ hpc[h] \in {"idle", "done"}
    /\ \E m \in Messages : hmsg' = [hmsg EXCEPT ![h] = m]
    /\ Goto(h, "received", "none")
    /\ UNCHANGED <<agentVars, scrapeVars, sumVars, mainVars, topicVars>>

\* on_message resumes: agent.run and process_command up to their first
\* await that suspends (fetch_news holds none)
Dispatch(h) ==
    /\ hpc[h] = "received"
    /\ LET m == hmsg[h]
       IN  CASE m.kind = "bot" ->
                  /\ Goto(h, "done", "ignored")
                  /\ UNCHANGED <<news_cache, last_fetch, stored>>
             [] m.kind = "list" ->
                  \E w \in BotWorlds :
                    LET r == fetch_news(news_cache, last_fetch, now, m.cat, FALSE, w)
                    IN  /\ SetCache(r, m.cat)
                        /\ Goto(h, "done",
                                IF r.raised THEN "raised"
                                ELSE IF r.ret = <<>> THEN "no_news" ELSE "listing")
             [] m.kind = "refresh" ->
                  \E w \in BotWorlds :
                    LET r == RefreshAll(news_cache, last_fetch, now, RegistryOrder, w)
                    IN  /\ news_cache' = r.cache
                        /\ last_fetch' = r.last
                        /\ stored' = r.cache
                        /\ Goto(h, "done", IF r.raised THEN "raised" ELSE "refreshed")
             [] m.kind = "summary" ->
                  /\ Goto(h, "http", "none")
                  /\ UNCHANGED <<news_cache, last_fetch, stored>>
             [] m.kind = "query" ->
                  \E w \in BotWorlds :
                    LET r == fetch_news(news_cache, last_fetch, now, "general", FALSE, w)
                    IN  /\ SetCache(r, "general")
                        /\ IF r.raised THEN Goto(h, "done", "raised")
                           ELSE IF r.ret = <<>> THEN Goto(h, "done", "no_items")
                           ELSE Goto(h, "llm_search", "none")
             [] OTHER ->
                  /\ Goto(h, "llm_chat", "none")
                  /\ UNCHANGED <<news_cache, last_fetch, stored>>
    /\ UNCHANGED <<now, apc, arg, ret, parsed, hmsg>>
    /\ UNCHANGED <<scrapeVars, sumVars, mainVars, topicVars>>

\* summarize_article: `await response.text()` returns or raises; the whole
\* body is inside try / except Exception
HttpReturn(h) ==
    /\ hpc[h] = "http"
    /\ \E ok \in BOOLEAN :
         IF ok THEN Goto(h, "llm_summary", "none")
         ELSE Goto(h, "done", "error_summary")
    /\ UNCHANGED <<agentVars, hmsg, scrapeVars, sumVars, mainVars, topicVars>>

\* `await self.client.chat.complete_async(...)` returns or raises, in
\* summarize_article (guarded), search_news and run (both not guarded).  An
\* empty answer of process_command makes run go on to its own LLM call.
LLMReturn(h) ==
    /\ hpc[h] \in {"llm_summary", "llm_search", "llm_chat"}
    /\ \E o \in LLMOutcomes :
         CASE hpc[h] = "llm_summary" ->
                IF o = "text" THEN Goto(h, "done", "summary")
                ELSE IF o = "raise" THEN Goto(h, "done", "error_summary")
                ELSE Goto(h, "llm_chat", "none")
           [] hpc[h] = "llm_search" ->
                IF o = "text" THEN Goto(h, "done", "search")
                ELSE IF o = "raise" THEN Goto(h, "done", "raised")
                ELSE Goto(h, "llm_chat", "none")
           [] OTHER ->
                IF o = "raise" THEN Goto(h, "done", "raised")
                ELSE Goto(h, "done", "chat")
    /\ UNCHANGED <<agentVars, hmsg, scrapeVars, sumVars, mainVars, topicVars>>

\* time passes while the bot runs
BotTick ==
    /\ now + TickLen <= MaxTime
    /\ now' = now + TickLen
    /\ UNCHANGED <<news_cache, last_fetch, apc, arg, ret, parsed, stored>>
    /\ UNCHANGED <<botVars, scrapeVars, sumVars, mainVars, topicVars>>

BotNext ==
    \/ \E h \in Handlers : Receive(h)
    \/ \E h \in Handlers : Dispatch(h)
    \/ \E h \in Handlers : HttpReturn(h)
    \/ \E h \in Handlers : LLMReturn(h)
    \/ BotTick

SpecBot == BotInit /\ [][BotNext]_vars

\* ------------------------------------------------------------------------
\* News.get_topic (src/v1/news.py)
\* ------------------------------------------------------------------------

\* `limit: int = 10`
DefaultLimit == 10

\* the most articles the news source answers with in the model
MaxArticles == 12

\* what google_news.get_news(topic) does: it raises, or it answers a list
NewsAnswers ==
    { [kind |-> "raise", articles |-> <<>>] }
        \cup { [kind |-> "ok", articles |-> [i \in 1..n |-> i]] : n \in 0..MaxArticles }

TopicArgs ==
    { [topic |-> t, limit |-> l] :
        t \in {"", "ai", "world"}, l \in {0, 1, 3, DefaultLimit} }

\* News.get_topic(topic, limit) when get_news answers `answer`. `news` is
\* bound only when the topic is non-empty and get_news did not raise; the
\* loop over an unbound `news` raises UnboundLocalError. The loop appends
\* every article; `limit` is not read.
get_topic(topic, limit, answer) ==
    IF topic = "" \/ answer.kind = "raise"
    THEN [raised |-> TRUE, results |-> <<>>]
    ELSE [raised |-> FALSE, results |-> answer.articles]

TopicInit ==
    /\ AgentStart
    /\ ScrapeIdle
    /\ SumIdle
    /\ MainIdle
    /\ BotIdle
    /\ tpc = "input"
    /\ targ \in TopicArgs
    /\ tnews \in NewsAnswers
    /\ tret = "none"

GetTopic ==
    /\ tpc = "input"
    /\ tpc' = "done"
    /\ tret' = get_topic(targ.topic, targ.limit, tnews)
    /\ UNCHANGED <<targ, tnews>>
    /\ UNCHANGED <<agentVars, scrapeVars, sumVars, mainVars, botVars>>

TopicNext == GetTopic

SpecTopic == TopicInit /\ [][TopicNext]_vars

\* ------------------------------------------------------------------------
\* Properties of the feed cache
\* ------------------------------------------------------------------------

\* C1: a fetch_news call with force_refresh = FALSE made less than one hour
\* after the last fetch of its category returns exactly the list that fetch
\* stored, parses no feed, and leaves the cache entry and its timestamp
\* unchanged.
C1_CacheHitIsReadOnly ==
    [][ (/\ apc = "called"
         /\ apc' # "called"
         /\ ~arg.force_refresh
         /\ arg.category \in DOMAIN last_fetch
         /\ now - last_fetch[arg.category] < TTL)
        => (/\ apc' = "returned"
            /\ ret' = stored[arg.category]
            /\ parsed' = <<>>
            /\ news_cache' = news_cache
            /\ last_fetch' = last_fetch) ]_vars

\* a hit after time has passed: a non-empty list came from the cache
C1_Witness ==
    /\ apc = "returned"
    /\ ~arg.force_refresh
    /\ parsed = <<>>
    /\ ret # <<>>
    /\ arg.category \in DOMAIN last_fetch
    /\ now > last_fetch[arg.category]
    /\ now - last_fetch[arg.category] < TTL

\* C2: for a category that is no key of the registry, a fetch_news call that
\* goes to the feeds parses exactly the feeds registered for "general", and
\* every call returns a list and never raises, whatever the feeds answer.
C2_UnknownCategoryFallsBack ==
    [][ (/\ apc = "called"
         /\ apc' # "called"
         /\ arg.category \notin DOMAIN news_sources)
        => (/\ apc' = "returned"
            /\ DOMAIN ret' = 1..Len(ret')
            /\ \/ parsed' = news_sources["general"]
               \/ (/\ ~arg.force_refresh
                   /\ arg.category \in DOMAIN last_fetch
                   /\ now - last_fetch[arg.category] < TTL
                   /\ parsed' = <<>>)) ]_vars

\* an unknown category was fetched from the "general" feed and got entries
C2_Witness ==
    /\ apc = "returned"
    /\ arg.category \notin DOMAIN news_sources
    /\ parsed = news_sources["general"]
    /\ ret # <<>>
    /\ \A i \in 1..Len(ret) : ret[i].source = "nyt_home"

\* C16: a source that fails contributes no entry to the list fetch_news
\* returns and caches: every source with an entry in the list has all of its
\* top entries there (it did not fail), and the sources' entries come in
\* registration order.
C16_FailedSourceContributesNothing ==
    (apc = "returned" /\ parsed # <<>>)
    => /\ news_cache[arg.category] = ret
       /\ \A i \in 1..Len(ret) :
              Cardinality({ j \in 1..Len(ret) : ret[j].source = ret[i].source })
                  = Min(ret[i].of, TopN)
       /\ \A i, j \in 1..Len(ret) :
              i < j => \E a, b \in 1..Len(parsed) :
                          /\ a <= b
                          /\ parsed[a] = ret[i].source
                          /\ parsed[b] = ret[j].source

\* C17: with handlers interleaving at their await points, in every state a
\* handler can see a category has a timestamp exactly when it has an item
\* list, and the list is the complete result of one fetch: the list the
\* fetch that set the timestamp built, which is what the feeds of the
\* category answered in one call, never a part of it or a mix of two.
C17_NoTornCacheEntry ==
    /\ DOMAIN news_cache = DOMAIN last_fetch
    /\ \A c \in DOMAIN news_cache :
           /\ news_cache[c] = stored[c]
           /\ last_fetch[c] <= now
           /\ \E w \in BotWorlds : news_cache[c] = AllEntries(SourcesFor(c), w)

\* one handler is suspended at its LLM call after it fetched "general"
\* while the other has listed "technology"
C17_Witness ==
    /\ hpc["h1"] = "llm_search"
    /\ hpc["h2"] = "done" /\ hres["h2"] = "listing"
    /\ hmsg["h2"].cat = "technology"
    /\ {"general", "technology"} \subseteq DOMAIN news_cache
    /\ Len(news_cache["technology"]) = 4
    /\ last_fetch["general"] < last_fetch["technology"]

\* C23: a fetch_news call goes to the feeds exactly when force_refresh is
\* set, the category has no timestamp, or an hour has passed since it; a
\* call that goes to the feeds replaces the category's entry by what it
\* returns (the empty list when every source failed) and sets the timestamp
\* to the time of the call, leaving the other categories alone; a call that
\* does not returns the entry, the empty list included, and changes nothing.
C23_FetchAlwaysCaches ==
    [][ (apc = "called" /\ apc' # "called")
        => LET c == arg.category
               expired == \/ arg.force_refresh
                          \/ c \notin DOMAIN last_fetch
                          \/ now - last_fetch[c] >= TTL
           IN  /\ apc' = "returned"
               /\ (parsed' # <<>>) <=> expired
               /\ expired =>
                     /\ c \in DOMAIN news_cache' /\ news_cache'[c] = ret'
                     /\ c \in DOMAIN last_fetch' /\ last_fetch'[c] = now
                     /\ \A d \in (DOMAIN news_cache \cup DOMAIN news_cache') \ {c} :
                            /\ d \in DOMAIN news_cache /\ d \in DOMAIN news_cache'
                            /\ news_cache'[d] = news_cache[d]
                            /\ last_fetch'[d] = last_fetch[d]
               /\ ~expired =>
                     /\ ret' = news_cache[c]
                     /\ news_cache' = news_cache /\ last_fetch' = last_fetch ]_vars

\* after a fetch in which every source failed, a later call within the hour
\* got the empty list from the cache
C23_Witness ==
    /\ apc = "returned"
    /\ ~arg.force_refresh
    /\ parsed = <<>>
    /\ ret = <<>>
    /\ arg.category \in DOMAIN news_cache
    /\ news_cache[arg.category] = <<>>
    /\ now > last_fetch[arg.category]
    /\ now - last_fetch[arg.category] < TTL

\* ------------------------------------------------------------------------
\* Properties of News.get_topic
\* ------------------------------------------------------------------------

\* C13: the list News.get_topic returns holds at most `limit` articles (10
\* when no limit is given), however many the news source answers with.
C13_AtMostLimitArticles ==
    (tpc = "done" /\ ~tret.raised) => Len(tret.results) <= targ.limit

\* ------------------------------------------------------------------------
\* Properties of scrape_article
\* ------------------------------------------------------------------------

\* C4: for any url and any fetched page, the string scrape_article returns
\* has at most 5000 characters.
C4_ReturnsAtMostMaxChars ==
    spc = "done" => TextLen(sret) <= MaxChars

\* ------------------------------------------------------------------------
\* Properties of get_news_urls and main
\* ------------------------------------------------------------------------

\* get_news_urls has returned `urls` to main
Discovered == pc \in {"scrape", "summarize", "done"} /\ tried # <<>>

\* the request for page p succeeded: it did not raise and answered 200
Succeeded(p) == p.exc # "fetch" /\ p.status = 200

\* every url of the run has been scraped
AllScraped == Discovered /\ urls # <<>> /\ Len(fetched) = Len(urls)

\* C11: for a page with a <nav> and an <article> container of three
\* paragraphs of 20 characters or more (and no element with an "article"
\* test-id), scrape_article returns the three paragraphs joined by spaces,
\* and neither nav text nor the title, the description or the headings.
C11_ArticleParagraphsOnly ==
    (/\ spc = "done"
     /\ ~IsMsn(surl)
     /\ spage.exc = "none" /\ spage.status = 200
     /\ spage.nav # <<>>
     /\ ~spage.cont.testid.present
     /\ spage.cont.article.present
     /\ Len(spage.cont.article.paras) = 3
     /\ \A k \in 1..3 : ParaLen(spage.cont.article.paras[k]) >= 20)
    => sret = Take(Normalize(JoinSp(AllParas("article", spage.cont.article.paras))),
                   MaxChars)

\* scrape_article ran its generic extraction on the page
GenericDone ==
    /\ spc = "done"
    /\ ~IsMsn(surl)
    /\ spage.exc = "none" /\ spage.status = 200

\* the tags of the pieces of text s
TagsOf(s) == { s[k].t : k \in 1..Len(s) }

\* the candidates in the order of Methods 1 to 5 of the code
CodeOrder == <<"testid", "article", "class", "main", "div">>

\* candidate number i of a page has text (the div needs three <p> as well)
Usable(page, i) ==
    IF CodeOrder[i] = "div"
    THEN Len(page.div.paras) >= MinDivParas /\ HasText(page.div)
    ELSE HasText(page.cont[CodeOrder[i]])

\* C14 (amended): the candidates are tried in the order test-id element,
\* <article>, class hint, <main>, largest div, and the first with text wins:
\* the text returned holds nothing of a later candidate nor of loose
\* paragraphs, and when the winner's text has 100 characters or more it is
\* what is returned.
C14_FirstWithTextInCodeOrder ==
    GenericDone =>
        \A i \in 1..Len(CodeOrder) :
            (Usable(spage, i) /\ \A j \in 1..(i - 1) : ~Usable(spage, j))
            => /\ TagsOf(sret) \cap ({ CodeOrder[j] : j \in (i + 1)..Len(CodeOrder) }
                                      \cup {"loose", "nav"}) = {}
               /\ LET e == IF CodeOrder[i] = "div" THEN spage.div
                           ELSE spage.cont[CodeOrder[i]]
                      long == { k \in 1..Len(e.paras) : ParaLen(e.paras[k]) > MinParaLen }
                      chars == IF long = {} THEN SumParas(e.paras) + e.other
                               ELSE SumParas([k \in 1..Len(e.paras) |->
                                       IF k \in long THEN e.paras[k] ELSE Para(0, 0)])
                                    + Cardinality(long) - 1
                  IN  chars >= MinContent => CodeOrder[i] \in TagsOf(sret)

\* a page with a test-id element and an <article>, both with text: the text
\* returned is the test-id element's
C14_Witness ==
    /\ GenericDone
    /\ HasText(spage.cont.testid) /\ HasText(spage.cont.article)
    /\ TextLen(sret) >= MinContent
    /\ TagsOf(sret) = {"testid", " "}

\* C14 as stated: with a non-empty <article> and a non-empty test-id
\* element, the text is taken from the <article> container.
C14_ArticleBeforeTestId ==
    (GenericDone /\ HasText(spage.cont.testid) /\ HasText(spage.cont.article))
    => "testid" \notin TagsOf(sret)

\* C15: for an msn.com URL whose structured data holds articleBody (else
\* description), the value is returned, cut to 5000 characters, when it is
\* non-empty; when it is empty it is not returned and the result is that of
\* the remaining extraction steps.
C15_EmptyStructuredValueSkipped ==
    (/\ spc = "done"
     /\ IsMsn(surl)
     /\ spage.exc = "none" /\ spage.status = 200
     /\ spage.msn.jsonld \in {"body", "desc"})
    => IF spage.msn.len > 0
       THEN /\ TextLen(sret) = Min(spage.msn.len, MaxChars)
            /\ TagsOf(sret) \subseteq {"articleBody", "description"}
       ELSE sret = scrape_article(surl, [spage EXCEPT !.msn.jsonld = "none"])

\* C3: whatever the searches answer, get_news_urls returns at most 5 URLs
\* and no URL twice.
C3_AtMostFiveNoDuplicate ==
    Discovered =>
        /\ Len(urls) <= MaxLinks
        /\ \A i, j \in 1..Len(urls) : i # j => urls[i] # urls[j]

\* C18: duplicates do not count toward the cap of 5: when no discovery
\* request failed and the pages read offer at least 5 distinct matching
\* URLs between them, get_news_urls returns exactly 5 URLs.
C18_FiveWhenFiveDistinctOffered ==
    (Discovered /\ failed = {} /\ Cardinality(offered) >= MaxLinks)
    => Len(urls) = MaxLinks

\* C19: when the RSS search ran and left the link list empty and the LLM
\* suggested source names, get_news_urls makes the hint-based search before
\* it returns.
C19_HintSearchRuns ==
    (/\ Discovered
     /\ \E i \in 1..Len(tried) : tried[i] = "rss"
     /\ "rss" \notin failed
     /\ backup_urls = <<>>
     /\ sources # <<>>)
    => \E i \in 1..Len(tried) : tried[i] = "hint"

\* C20: a run ends early only with an empty result (no URL discovered, or
\* no content scraped); after any other failure, that of the LLM call for
\* the source names included, it goes through discovery and extraction and
\* ends with a summary.
C20_OnlyEmptyResultEndsRun ==
    (pc = "done" /\ out \notin {"no_urls", "no_content"})
    => (/\ tried # <<>>
        /\ Len(fetched) = Len(urls)
        /\ articles # <<>>
        /\ out = "summary")

\* C8: a discovery request that raises or answers non-200 does not abort the
\* discovery: the links collected by an earlier step are in the list returned.
C8_EarlierLinksSurviveFailure ==
    (Discovered /\ failed # {}) =>
        \A i \in 1..Len(article_links) :
            \E j \in 1..Len(urls) : urls[j] = article_links[i]

\* C9: get_news_urls returns an empty list only after the RSS search was
\* tried and it, too, yielded no link.
C9_EmptyOnlyAfterRss ==
    (Discovered /\ urls = <<>>) =>
        /\ \E i \in 1..Len(tried) : tried[i] = "rss"
        /\ backup_urls = <<>>

\* C12: when the discovered URL list is empty the run ends with the
\* no-URL failure, no article was fetched and the summarizer made no call.
C12_EmptyListEndsRun ==
    (Discovered /\ urls = <<>>)
    => (/\ pc = "done" /\ out = "no_urls"
        /\ fetched = <<>> /\ articles = <<>> /\ llmCalls = 0)

C12_Witness ==
    /\ pc = "done" /\ out = "no_urls"
    /\ urls = <<>>
    /\ \E i \in 1..Len(tried) : tried[i] = "bing"

\* C5: when every candidate URL fails (non-200, or an exception), the run
\* reports the no-content failure and makes no LLM call for a summary.
C5_NoSummaryWithoutArticle ==
    (/\ pc = "done"
     /\ AllScraped
     /\ \A i \in 1..Len(fetched) :
            fetched[i].exc # "none" \/ fetched[i].status # 200)
    => (out = "no_content" /\ llmCalls = 0)

\* the non-empty texts extracted from the urls from position k on whose
\* fetch succeeded, in url order
RECURSIVE SucceededTexts(_)
SucceededTexts(k) ==
    IF k > Len(fetched) THEN <<>>
    ELSE (IF Succeeded(fetched[k]) /\ scrape_article(urls[k], fetched[k]) # <<>>
          THEN <<scrape_article(urls[k], fetched[k])>>
          ELSE <<>>)
         \o SucceededTexts(k + 1)

\* C10: the batch handed to the summarizer is exactly the texts extracted
\* from the URLs whose fetch succeeded, in URL order.
C10_BatchIsSucceededTexts ==
    (pc = "summarize" /\ AllScraped) => articles = SucceededTexts(1)

\* ------------------------------------------------------------------------
\* Properties of the LLM calls
\* ------------------------------------------------------------------------

\* C6: a failure of the LLM call is never propagated as an exception: no
\* message handler ends with an exception leaving agent.run.
C6_LLMFailureNeverPropagates ==
    \A h \in Handlers : hres[h] # "raised"

\* ------------------------------------------------------------------------
\* Properties of summarize_news
\* ------------------------------------------------------------------------

\* C21: one summarize_news call makes at most two LLM calls; the second,
\* with the alternate prompt, is made exactly when the first response holds
\* a missing-content indicator, and its response is the one used, with no
\* further call, also when it holds an indicator itself.
C21_AtMostOneRetry ==
    zpc = "done" =>
        /\ zout.calls <= 2
        /\ zout.calls = 2 <=> (zarticles # <<>> /\ zr1.kind = "text" /\ zr1.ind)
        /\ (zout.calls = 2 /\ zr2.kind = "text")
           => /\ zout.summary = EnsureBreaks(zr2.toks)
              /\ CountBrk(zr2.toks) >= MinBreaks => zout.summary = zr2.toks
        /\ (zout.calls = 1 /\ zr1.kind = "text")
           => zout.summary = EnsureBreaks(zr1.toks)

\* the alternate response holds an indicator too and is returned as it is
C21_Witness ==
    /\ zpc = "done"
    /\ zout.calls = 2
    /\ zr1.ind /\ zr2.kind = "text" /\ zr2.ind
    /\ CountBrk(zr2.toks) >= MinBreaks
    /\ zout.summary = zr2.toks

\* the LLM call of the summarize_news call at hand failed
LLMFailed ==
    \/ zr1.kind = "raise"
    \/ (zr1.kind = "text" /\ zr1.ind /\ zr2.kind = "raise")

\* C22: when the LLM call fails and the valid articles hold a sentence, the
\* summary returned is three groups separated by two blank lines; the
\* groups are adjacent slices, in order, of the list of the first up to 5
\* sentences of each valid article; a group holds at most
\* max(1, n div 3) of the n sentences selected, and the first is not empty.
C22_ExtractiveThreeGroups ==
    LET sel == Selected(ValidArticles(zarticles))
        n == Len(sel)
        m == Max(1, n \div 3)
        Group(lo, hi) == JoinTok([i \in 1..(hi - lo) |-> <<SentenceTok(sel[lo + i])>>], Sp)
    IN  (zpc = "done" /\ LLMFailed /\ zarticles # <<>> /\ n >= 1)
        => /\ CountBrk(zout.summary) >= 2
           /\ \E a, b, c \in 0..n :
                 /\ 1 <= a /\ a <= b /\ b <= c
                 /\ a <= m /\ b - a <= m /\ c - b <= m
                 /\ zout.summary = Group(0, a) \o <<Brk>> \o Group(a, b)
                                     \o <<Brk>> \o Group(b, c)

\* nine sentences selected from three articles: three sentences in each
\* group, the last group ending with the ninth
C22_Witness ==
    /\ zpc = "done"
    /\ zr1.kind = "raise"
    /\ Len(Selected(ValidArticles(zarticles))) = 9
    /\ CountBrk(zout.summary) = 2
    /\ Len(zout.summary) = 17
    /\ zout.summary[17].id = Selected(ValidArticles(zarticles))[9]

\* C7: for three non-empty articles and any text the LLM returns, the summary
\* returned holds at least two blank lines.
C7_AtLeastTwoBreaks ==
    (/\ zpc = "done"
     /\ Len(zarticles) = 3
     /\ \A i \in 1..Len(zarticles) : zarticles[i].len > 0
     /\ zr1.kind = "text"
     /\ (zr1.ind => zr2.kind = "text"))
    => CountBrk(zout.summary) >= MinBreaks

====
